---- MODULE Spec2Model ----
(***************************************************************************)
(* A model of src/arena.py: the match loop of main, Agent.run, the output  *)
(* parsers and extract_winner.  Text is modelled by TLA+ strings, handled  *)
(* character by character with Len, SubSeq and \o, so that lower-casing,   *)
(* stripping, substring search and the regular expressions of the parsers  *)
(* are computed as Python computes them.                                   *)
(***************************************************************************)
EXTENDS Integers, Sequences, FiniteSets, TLC

(* ------------------------------------------------------------------ *)
(* Bounds of the model                                                 *)
(* ------------------------------------------------------------------ *)

\* The largest round count the driver supplies.
MaxRounds == 2

\* The largest number of text fragments concatenated into a judge verdict
\* when extract_winner is checked as a pure function.
MaxChunks == 2

\* The largest number of pieces concatenated into a text handed to a parser
\* when the parsers are checked as pure functions.
MaxPieces == 3

\* The largest number of calls of one agent's run when Agent is checked alone.
MaxCalls == 3

(* ------------------------------------------------------------------ *)
(* Python str operations                                               *)
(* ------------------------------------------------------------------ *)

Digits == "0123456789"

\* s[i] as a one-character string
CharAt(s, i) == SubSeq(s, i, i)

\* s[i:] with i counted from 1
Drop(s, i) == SubSeq(s, i, Len(s))

\* The case mappings of the letters and the values of the digits
ToLower ==
    [A |-> "a", B |-> "b", C |-> "c", D |-> "d", E |-> "e", F |-> "f", G |-> "g", H |-> "h", I
     |-> "i", J |-> "j", K |-> "k", L |-> "l", M |-> "m", N |-> "n", O |-> "o", P |-> "p", Q
     |-> "q", R |-> "r", S |-> "s", T |-> "t", U |-> "u", V |-> "v", W |-> "w", X |-> "x", Y
     |-> "y", Z |-> "z"]

ToUpper ==
    [a |-> "A", b |-> "B", c |-> "C", d |-> "D", e |-> "E", f |-> "F", g |-> "G", h |-> "H", i
     |-> "I", j |-> "J", k |-> "K", l |-> "L", m |-> "M", n |-> "N", o |-> "O", p |-> "P", q
     |-> "Q", r |-> "R", s |-> "S", t |-> "T", u |-> "U", v |-> "V", w |-> "W", x |-> "X", y
     |-> "Y", z |-> "Z"]

DigitValue == ("0" :> 0) @@ ("1" :> 1) @@ ("2" :> 2) @@ ("3" :> 3) @@ ("4" :> 4) @@
              ("5" :> 5) @@ ("6" :> 6) @@ ("7" :> 7) @@ ("8" :> 8) @@ ("9" :> 9)

UpperLetters == DOMAIN ToLower

LowerLetters == DOMAIN ToUpper

IsUpper(c) == c \in UpperLetters

IsLower(c) == c \in LowerLetters

IsCased(c) == IsUpper(c) \/ IsLower(c)

DigitChars == DOMAIN DigitValue

IsDigit(c) == c \in DigitChars

WhiteSpace == {" ", "\n", "\t", "\r"}

IsSpace(c) == c \in WhiteSpace

LowerChar(c) == IF IsUpper(c) THEN ToLower[c] ELSE c

UpperChar(c) == IF IsLower(c) THEN ToUpper[c] ELSE c

\* The element of a set of one element.  A value that is read many times is
\* bound as the element of such a set, and so is computed once.
The(S) == CHOOSE x \in S : TRUE

Min(S) == The({(CHOOSE k \in T : \A j \in T : k <= j) : T \in {S}})

Max(S) == The({(CHOOSE k \in T : \A j \in T : k >= j) : T \in {S}})

\* "".join(parts) for the n parts, the sequence halved at each step
JoinAll(parts, n) ==
    LET join[lo \in 1..n + 1, hi \in 0..n] ==
            IF lo > hi THEN ""
            ELSE IF lo = hi THEN parts[lo]
            ELSE join[lo, (lo + hi) \div 2] \o join[(lo + hi) \div 2 + 1, hi]
    IN  join[1, n]

Join(parts) == The({JoinAll(p, n) : p \in {parts}, n \in {Len(parts)}})

\* str.lower()
lower(s) == The({Join([k \in 1..Len(t) |-> LowerChar(CharAt(t, k))]) : t \in {s}})

\* str.replace(old, new) for a one-character old
replace(s, old, new) ==
    The({Join([k \in 1..Len(t) |-> IF CharAt(t, k) = old THEN new ELSE CharAt(t, k)])
           : t \in {s}})

\* str.title(): a cased character is upper-cased when the character before it
\* is not cased, and lower-cased otherwise
title(s) ==
    The({Join([k \in 1..Len(t) |->
                 IF k > 1 /\ IsCased(CharAt(t, k - 1)) THEN LowerChar(CharAt(t, k))
                 ELSE UpperChar(CharAt(t, k))])
           : t \in {s}})

\* The positions of the characters of s that are no white space
Inked(s) == The({{k \in 1..Len(t) : ~IsSpace(CharAt(t, k))} : t \in {s}})

\* str.strip(): from the first to the last character that is no white space
strip(s) ==
    The({IF inked = {} THEN "" ELSE SubSeq(t, Min(inked), Max(inked))
           : t \in {s}, inked \in {Inked(s)}})

\* str.startswith(prefix)
startswith(s, prefix) ==
    Len(prefix) <= Len(s) /\ SubSeq(s, 1, Len(prefix)) = prefix

endswith(s, suffix) ==
    Len(suffix) <= Len(s) /\ SubSeq(s, Len(s) - Len(suffix) + 1, Len(s)) = suffix

\* the positions at which needle occurs in hay
Occurrences(hay, needle) ==
    The({{k \in 1..(Len(h) - Len(n) + 1) : SubSeq(h, k, k + Len(n) - 1) = n}
           : h \in {hay}, n \in {needle}})

\* needle in hay
contains(hay, needle) == Occurrences(hay, needle) /= {}

\* str.find(needle, start), positions counted from 1, 0 when there is none
FindFrom(hay, needle, start) ==
    The({IF occ = {} THEN 0 ELSE Min(occ)
           : occ \in {{k \in Occurrences(hay, needle) : k >= start}}})

(* ------------------------------------------------------------------ *)
(* get_clean_name                                                      *)
(* ------------------------------------------------------------------ *)

get_clean_name(model_slug) == replace(title(replace(model_slug, "-", " ")), " ", "-")

(* ------------------------------------------------------------------ *)
(* Module constants of src/arena.py                                    *)
(* ------------------------------------------------------------------ *)

INFRA_MODEL == "gpt-4-turbo"

\* The instruction texts are only handed on to the backend: they are kept by name.
SOLVER_INSTRUCTIONS == <<"SOLVER_INSTRUCTIONS">>

GENERATOR_INSTRUCTIONS == <<"GENERATOR_INSTRUCTIONS">>

\* JUDGE_TEMPLATE.format(name_1=..., name_2=...)
JUDGE_TEMPLATE(n1, n2) == <<"JUDGE_TEMPLATE", n1, n2>>

(* ------------------------------------------------------------------ *)
(* Agent                                                               *)
(* ------------------------------------------------------------------ *)

\* Agent.__init__
Agent(name, model, instructions) ==
    [name |-> name, model |-> model, instructions |-> instructions]

\* The branch conditions of Agent.run
IsOpenAIModel(model) == startswith(model, "gpt-") \/ startswith(model, "o1-")

\* The Gemini branch as a plain else: every other model goes to Gemini.
IsGeminiModelElse(model) == ~IsOpenAIModel(model)

IsGeminiModel(model) == ~IsOpenAIModel(model) /\ contains(model, "gemini")

HasBackend(model) == IsOpenAIModel(model) \/ IsGeminiModel(model)

\* A result of a call: the value returned, or the exception raised (its message).
Returned(text) == [raised |-> FALSE, value |-> text]

Raised(msg) == [raised |-> TRUE, value |-> msg]

\* What the backend does with one request:
\*   kind "text":  it answers with the content text
\*   kind "none":  it answers with a response whose content is None
\*   kind "raise": the call raises an exception whose message is text
\* The body of the try block of Agent.run.
TryBackend(self, outcome) ==
    IF HasBackend(self.model)
    THEN CASE outcome.kind = "text"  -> Returned(strip(outcome.text))
           [] outcome.kind = "none"  -> Raised("'NoneType' object has no attribute 'strip'")
           [] outcome.kind = "raise" -> Raised(outcome.text)
    ELSE Returned("Error: Model '" \o self.model \o "' is not supported.")

\* A run without the except clause: the exception leaves Agent.run.
ExceptHandlerReraises(self, r) == r

\* except Exception as e: return f"Error running agent {self.name}: {e}"
ExceptHandler(self, r) ==
    IF r.raised
    THEN Returned("Error running agent " \o self.name \o ": " \o r.value)
    ELSE r

\* Agent.run
Agent_run(self, input_text, outcome) == ExceptHandler(self, TryBackend(self, outcome))

\* Runner.run: {"final_output": output}, or the exception of Agent.run
Runner_run(starting_agent, input_text, outcome) ==
    The({[raised |-> output.raised, final_output |-> output.value]
           : output \in {Agent_run(starting_agent, input_text, outcome)}})

(* ------------------------------------------------------------------ *)
(* Parsing                                                             *)
(* ------------------------------------------------------------------ *)

\* Where $ matches first at or after position start: before a final newline,
\* else at the end of the text (position of the character after the match).
DollarPos(text, start) ==
    IF Len(text) >= start /\ CharAt(text, Len(text)) = "\n" THEN Len(text) ELSE Len(text) + 1

\* re.search(marker + r"(.*?)(Final Answer:|$)", text, re.DOTALL | re.IGNORECASE):
\* [matched, group1]
SectionFrom(marker, text, low, at) ==
    LET start == at + Len(marker)
        fa    == FindFrom(low, "final answer:", start)
        stop  == IF fa > 0 /\ fa <= DollarPos(text, start) THEN fa ELSE DollarPos(text, start)
    IN  IF at = 0 THEN [matched |-> FALSE, group1 |-> ""]
        ELSE [matched |-> TRUE, group1 |-> SubSeq(text, start, stop - 1)]

SearchSection(marker, text) ==
    The({The({SectionFrom(marker, text, low, at) : at \in {FindFrom(low, lower(marker), 1)}})
           : low \in {lower(text)}})

\* re.search(r"Final Answer:(.*)", text, re.DOTALL | re.IGNORECASE)
SearchFinalAnswer(text) ==
    The({IF at = 0 THEN [matched |-> FALSE, group1 |-> ""]
         ELSE [matched |-> TRUE, group1 |-> Drop(text, at + Len("final answer:"))]
           : at \in {FindFrom(lower(text), "final answer:", 1)}})

\* The try block of parse_math_problem_output: .group(1) of a search without
\* match raises AttributeError.
parse_math_try(text) ==
    The({IF ~m1.matched \/ ~m2.matched
         THEN Raised("'NoneType' object has no attribute 'group'")
         ELSE Returned([problem_statement    |-> strip(m1.group1),
                        correct_final_answer |-> strip(m2.group1)])
           : m1 \in {SearchSection("Problem Statement:", text)},
             m2 \in {SearchFinalAnswer(text)}})

\* A handler that keeps what the first search found
parse_math_except_keeps_statement(text, r) ==
    The({IF ~r.raised THEN r
         ELSE Returned([problem_statement    |-> IF m1.matched THEN strip(m1.group1) ELSE text,
                        correct_final_answer |-> "Unknown"])
           : m1 \in {SearchSection("Problem Statement:", text)}})

\* except Exception: return {"problem_statement": text, "correct_final_answer": "Unknown"}
parse_math_except(text, r) ==
    IF r.raised
    THEN Returned([problem_statement |-> text, correct_final_answer |-> "Unknown"])
    ELSE r

\* A call of parse_math_problem_output: what it returns, or the exception it raises
parse_math_call(text) ==
    The({parse_math_except(text, r) : r \in {parse_math_try(text)}})

parse_math_problem_output(text) == parse_math_call(text).value

\* parse_solver_output with final_answer starting empty instead of as the text
parse_solver_output_no_fallback(text) ==
    The({[reasoning    |-> IF reasoning_match.matched THEN strip(reasoning_match.group1)
                           ELSE "No reasoning provided.",
          final_answer |-> IF answer_match.matched THEN strip(answer_match.group1) ELSE ""]
           : reasoning_match \in {SearchSection("Reasoning:", text)},
             answer_match \in {SearchFinalAnswer(text)}})

\* parse_solver_output with the white space of an unmarked answer stripped
parse_solver_output_strips(text) ==
    The({[reasoning    |-> IF reasoning_match.matched THEN strip(reasoning_match.group1)
                           ELSE "No reasoning provided.",
          final_answer |-> IF answer_match.matched THEN strip(answer_match.group1)
                           ELSE strip(text)]
           : reasoning_match \in {SearchSection("Reasoning:", text)},
             answer_match \in {SearchFinalAnswer(text)}})

parse_solver_output(text) ==
    The({[reasoning    |-> IF reasoning_match.matched THEN strip(reasoning_match.group1)
                           ELSE "No reasoning provided.",
          final_answer |-> IF answer_match.matched THEN strip(answer_match.group1) ELSE text]
           : reasoning_match \in {SearchSection("Reasoning:", text)},
             answer_match \in {SearchFinalAnswer(text)}})

\* A value that may be None
Some(v) == [some |-> TRUE, val |-> v]

None == [some |-> FALSE, val |-> ""]

\* The order of the four checks of extract_winner
TieAndWinner(verdict_lower) == contains(verdict_lower, "tie") /\ contains(verdict_lower, "winner")

NamedWinner(verdict_lower, name) ==
    contains(verdict_lower, "winner of the match is: " \o lower(name))

\* extract_winner with the named-winner checks before the tie-and-winner check
extract_winner_names_first(verdict_text, name1, name2) ==
    The({IF NamedWinner(verdict_lower, name1) THEN Some(name1)
         ELSE IF NamedWinner(verdict_lower, name2) THEN Some(name2)
         ELSE IF TieAndWinner(verdict_lower) THEN Some("Tie")
         ELSE IF contains(verdict_lower, "is: tie") THEN Some("Tie")
         ELSE None
           : verdict_lower \in {lower(verdict_text)}})

\* extract_winner returning the lower-cased name it searched for
extract_winner_lower(verdict_text, name1, name2) ==
    The({IF TieAndWinner(verdict_lower) THEN Some("Tie")
         ELSE IF NamedWinner(verdict_lower, name1) THEN Some(lower(name1))
         ELSE IF NamedWinner(verdict_lower, name2) THEN Some(lower(name2))
         ELSE IF contains(verdict_lower, "is: tie") THEN Some("Tie")
         ELSE None
           : verdict_lower \in {lower(verdict_text)}})

extract_winner(verdict_text, name1, name2) ==
    The({IF TieAndWinner(verdict_lower) THEN Some("Tie")
         ELSE IF NamedWinner(verdict_lower, name1) THEN Some(name1)
         ELSE IF NamedWinner(verdict_lower, name2) THEN Some(name2)
         ELSE IF contains(verdict_lower, "is: tie") THEN Some("Tie")
         ELSE None
           : verdict_lower \in {lower(verdict_text)}})

(* ------------------------------------------------------------------ *)
(* The inputs of the driver and the answers of the backends            *)
(* ------------------------------------------------------------------ *)

\* The value of a text of digits
RECURSIVE DigitsValueTo(_, _)
DigitsValueTo(s, k) ==
    IF k = 0 THEN 0 ELSE 10 * DigitsValueTo(s, k - 1) + DigitValue[CharAt(s, k)]

DigitsValue(s) == The({DigitsValueTo(t, Len(t)) : t \in {s}})

\* An underscore of an int literal stands between two digits.
DigitOrSeparator(body, k) ==
    \/ IsDigit(CharAt(body, k))
    \/ /\ CharAt(body, k) = "_"
       /\ 1 < k /\ k < Len(body)
       /\ IsDigit(CharAt(body, k - 1)) /\ IsDigit(CharAt(body, k + 1))

\* int(s): [ok, value]; ok is FALSE where Python raises ValueError.  White space
\* around the text is dropped, then come an optional sign and the digits.
IntOfStripped(t) ==
    LET signed == t /= "" /\ CharAt(t, 1) \in {"+", "-"}
        body   == IF signed THEN Drop(t, 2) ELSE t
        ok     == body /= "" /\ \A k \in 1..Len(body) : DigitOrSeparator(body, k)
        digits == DigitsValue(replace(body, "_", ""))
    IN  IF ~ok THEN [ok |-> FALSE, value |-> 0]
        ELSE [ok |-> TRUE, value |-> IF signed /\ CharAt(t, 1) = "-" THEN 0 - digits ELSE digits]

int(s) == The({IntOfStripped(t) : t \in {strip(s)}})

\* What the operator types at "How many rounds?"
RoundInputs ==
    {"", "abc", "1x", "-1", " 0 ", "0_1"} \cup {CharAt(Digits, n + 1) : n \in 2..MaxRounds}

\* What the operator types at "Enter Model ID"
ModelInputs == {"", "gpt-a", "tie"}

Text(t) == [kind |-> "text", text |-> t]

Raise(msg) == [kind |-> "raise", text |-> msg]

NoContent == [kind |-> "none", text |-> ""]

\* No request reaches a backend (the model has none).
NoCall == [kind |-> "nocall", text |-> ""]

\* No call of the agent has returned in this round.
Pending == [kind |-> "pending", text |-> ""]

GeneratorOutcomes ==
    { Text("Problem Statement: 2+2?\nFinal Answer: 4"),
      Text("What is 2+2?"),
      Raise("quota") }

SolverOutcomes ==
    { Text("Reasoning: sum\nFinal Answer: 4"),
      Text(" 5 "),
      Raise("timeout"),
      Raise("400 in 'Reasoning: [...] Final Answer: [...]'") }

JudgeOutcomes(n1, n2) ==
    { Text("Good. The winner of the match is: " \o n1),
      Text("The winner of the match is: " \o n2),
      Text("The winner of the match is: Tie"),
      Text("Equal, so the result is: Tie"),
      Text("A tie in style. The winner of the match is: " \o n1),
      Text("Both did well."),
      NoContent }

\* The outcomes a call of agent can meet
OutcomesFor(agent, outcomes) == IF HasBackend(agent.model) THEN outcomes ELSE {NoCall}

(* ------------------------------------------------------------------ *)
(* main                                                                *)
(* ------------------------------------------------------------------ *)

Roles == {"Generator", "Judge", "Fighter_1", "Fighter_2"}

Fighter(k) == IF k = 1 THEN "Fighter_1" ELSE "Fighter_2"

VARIABLES
    pc,           \* where main is
    r_input,      \* the round count as typed
    rounds, model_1, model_2, name_1, name_2,
    agents,       \* the four Agent objects by variable name; <<>> before they exist
    scoreboard,   \* the dict; <<>> before it exists
    i,            \* the loop variable (0 before the loop)
    prob_res, prob_data,
    tasks,        \* the results of task1 and task2
    done,         \* the solver calls completed, in order of completion
    res,          \* <<res1, res2>>
    out,          \* <<out1, out2>>
    judge_input,
    judge_res,
    winner,
    report,       \* what the last completed round printed as its result
    final,        \* the final results printed; <<>> before
    calls,        \* how often each agent's run has been called
    backend,      \* what each agent's backend did in this round
    completed,    \* rounds completed
    unknowns      \* rounds completed without a winner

vars == <<pc, r_input, rounds, model_1, model_2, name_1, name_2, agents, scoreboard, i,
          prob_res, prob_data, tasks, done, res, out, judge_input, judge_res, winner,
          report, final, calls, backend, completed, unknowns>>

config == <<r_input, rounds, model_1, model_2, name_1, name_2, agents>>

roundVars == <<prob_res, prob_data, tasks, done, res, out, judge_input, judge_res, winner>>

tally == <<scoreboard, report, completed, unknowns>>

NoTask == [raised |-> FALSE, final_output |-> ""]

NoBackend == [r \in Roles |-> Pending]

verdict == judge_res.final_output

Init ==
    /\ pc = "config"
    /\ r_input = "" /\ rounds = 0
    /\ model_1 = "" /\ model_2 = "" /\ name_1 = "" /\ name_2 = ""
    /\ agents = <<>> /\ scoreboard = <<>> /\ i = 0
    /\ prob_res = <<>> /\ prob_data = <<>>
    /\ tasks = <<NoTask, NoTask>> /\ done = <<>>
    /\ res = <<>> /\ out = <<>> /\ judge_input = <<>> /\ judge_res = <<>>
    /\ winner = <<>> /\ report = <<>> /\ final = <<>>
    /\ calls = [r \in Roles |-> 0]
    /\ backend = NoBackend
    /\ completed = 0 /\ unknowns = 0

\* A call that is made again after its first answer
CalledWithRetry(c, role) == [c EXCEPT ![role] = @ + 2]

\* Runner.run(agent, ...) is called: one more call of the agent's run.
Called(c, role) == [c EXCEPT ![role] = @ + 1]

\* except ValueError: pass
OnValueErrorContinue == "loop"

\* except ValueError: return
OnValueError == "returned"

\* An exception that leaves main ends the program (backend is left to the caller:
\* the call that raised has met its outcome).
Crash ==
    /\ pc' = "crashed"
    /\ UNCHANGED <<config, scoreboard, i, roundVars, report, final, calls, completed, unknowns>>

\* What main reads before the loop: the round count, or ok = FALSE where int
\* raises ValueError, and the model and the name of each fighter.
ReadConfig(r, m1_input, m2_input) ==
    LET n  == IF strip(r) /= "" THEN int(r) ELSE [ok |-> TRUE, value |-> 1]
        m1 == IF strip(m1_input) /= "" THEN strip(m1_input) ELSE "gpt-5.1"
        m2 == IF strip(m2_input) /= "" THEN strip(m2_input) ELSE "gemini-3-pro-preview"
    IN  [ok |-> n.ok, rounds |-> n.value,
         model_1 |-> m1, name_1 |-> get_clean_name(m1),
         model_2 |-> m2, name_2 |-> get_clean_name(m2)]

\* The setup of main: the three inputs, the agents, the scoreboard.
Configure ==
    /\ pc = "config"
    /\ \E r \in RoundInputs, m1_input \in ModelInputs, m2_input \in ModelInputs :
         \E c \in {ReadConfig(r, m1_input, m2_input)} :
             /\ r_input' = r
             /\ IF ~c.ok
                THEN /\ pc' = OnValueError
                     /\ UNCHANGED <<rounds, model_1, model_2, name_1, name_2, agents, scoreboard>>
                ELSE /\ pc' = "loop"
                     /\ rounds' = c.rounds
                     /\ model_1' = c.model_1 /\ name_1' = c.name_1
                     /\ model_2' = c.model_2 /\ name_2' = c.name_2
                     /\ agents' = [Generator |-> Agent("Generator", INFRA_MODEL, GENERATOR_INSTRUCTIONS),
                                   Judge     |-> Agent("Judge", INFRA_MODEL,
                                                       JUDGE_TEMPLATE(c.name_1, c.name_2)),
                                   Fighter_1 |-> Agent(c.name_1, c.model_1, SOLVER_INSTRUCTIONS),
                                   Fighter_2 |-> Agent(c.name_2, c.model_2, SOLVER_INSTRUCTIONS)]
                     /\ scoreboard' = [k \in {c.name_1, c.name_2, "Tie"} |-> 0]
    /\ UNCHANGED <<i, roundVars, backend, report, final, calls, completed, unknowns>>

\* A loop whose body runs before the count is tested
LoopContinuesAtLeastOnce(n, r) == n < r \/ n = 0

\* range(1, rounds)
LoopContinuesShort(n, r) == n < r - 1

\* for i in range(1, rounds + 1), after n rounds
LoopContinues(n, r) == n < r

\* The next round starts with the call of the generator.
EnterRound ==
    /\ pc = "loop"
    /\ LoopContinues(i, rounds)
    /\ i' = i + 1
    /\ calls' = Called(calls, "Generator")
    /\ pc' = "generating"
    /\ UNCHANGED <<config, roundVars, backend, tally, final>>

\* The generator's answer is parsed and both solver tasks are handed to gather.
GeneratorReturns ==
    /\ pc = "generating"
    /\ \E outcome \in OutcomesFor(agents.Generator, GeneratorOutcomes) :
         /\ backend' = [backend EXCEPT !["Generator"] = outcome]
         /\ \E r \in {Runner_run(agents.Generator, "Generate a hard math problem.", outcome)} :
             IF r.raised THEN Crash
             ELSE /\ prob_res' = [final_output |-> r.final_output]
                  /\ \E pd \in {parse_math_problem_output(r.final_output)} : prob_data' = pd
                  /\ calls' = Called(Called(calls, "Fighter_1"), "Fighter_2")
                  /\ pc' = "solving"
                  /\ UNCHANGED <<config, i, tasks, done, res, out, judge_input, judge_res,
                                 winner, tally, final>>

\* One of the two solver calls ends.
SolverCompletes(k) ==
    /\ pc = "solving"
    /\ \A j \in 1..Len(done) : done[j] /= k
    /\ \E outcome \in OutcomesFor(agents[Fighter(k)], SolverOutcomes) :
         /\ backend' = [backend EXCEPT ![Fighter(k)] = outcome]
         /\ \E r \in {Runner_run(agents[Fighter(k)], prob_data.problem_statement, outcome)} :
               tasks' = [tasks EXCEPT ![k] = r]
    /\ done' = Append(done, k)
    /\ UNCHANGED <<pc, config, i, prob_res, prob_data, res, out, judge_input, judge_res,
                   winner, tally, final, calls>>

\* A wait for the first task only
GatherReadyFirst(d) == Len(d) >= 1

\* await asyncio.gather(task1, task2) returns once both tasks are done ...
GatherReady(d) == Len(d) = 2

\* The results in the order of completion
GatherResultsAsCompleted(t, d) == <<t[d[1]], t[d[2]]>>

\* ... with the results in the order of its arguments.
GatherResults(t, d) == <<t[1], t[2]>>

\* The f-string of judge_input, by its slots
JudgeInput(pd, n1, o1, n2, o2) ==
    [problem |-> pd.problem_statement, proposed_answer |-> pd.correct_final_answer,
     label_1 |-> n1, answer_1 |-> o1.final_answer, reasoning_1 |-> o1.reasoning,
     label_2 |-> n2, answer_2 |-> o2.final_answer, reasoning_2 |-> o2.reasoning]

\* Both solver outputs are parsed, the judge input is built and the judge is called.
GatherReturns ==
    /\ pc = "solving"
    /\ GatherReady(done)
    /\ \E results \in {GatherResults(tasks, done)} :
       \E o1 \in {parse_solver_output(results[1].final_output)},
          o2 \in {parse_solver_output(results[2].final_output)} :
           IF results[1].raised \/ results[2].raised THEN Crash /\ UNCHANGED backend
           ELSE /\ res' = <<[final_output |-> results[1].final_output],
                            [final_output |-> results[2].final_output]>>
                /\ out' = <<o1, o2>>
                /\ judge_input' = JudgeInput(prob_data, name_1, o1, name_2, o2)
                /\ calls' = Called(calls, "Judge")
                /\ pc' = "judging"
                /\ UNCHANGED <<config, i, prob_res, prob_data, tasks, done, judge_res, winner,
                               backend, tally, final>>

\* The judge's answer is the verdict, and the winner is extracted from it.
JudgeReturns ==
    /\ pc = "judging"
    /\ \E outcome \in OutcomesFor(agents.Judge, JudgeOutcomes(name_1, name_2)) :
         /\ backend' = [backend EXCEPT !["Judge"] = outcome]
         /\ \E r \in {Runner_run(agents.Judge, judge_input, outcome)} :
             IF r.raised THEN Crash
             ELSE /\ judge_res' = [final_output |-> r.final_output]
                  /\ \E w \in {extract_winner(r.final_output, name_1, name_2)} : winner' = w
                  /\ pc' = "score"
                  /\ UNCHANGED <<config, i, prob_res, prob_data, tasks, done, res, out,
                                 judge_input, tally, final, calls>>

\* A scoring step that gives a tie to both contestants
ScoreUpdateTieToBoth(board, w) ==
    IF w.some /\ w.val = "Tie"
    THEN [raised |-> FALSE, board |-> [k \in DOMAIN board |-> IF k = "Tie" THEN board[k] ELSE board[k] + 1],
          said |-> "tie"]
    ELSE IF w.some /\ w.val /= ""
    THEN [raised |-> FALSE, board |-> [board EXCEPT ![w.val] = @ + 1], said |-> "winner"]
    ELSE [raised |-> FALSE, board |-> board, said |-> "Error: Could not determine winner."]

\* A scoring step that does not count ties
ScoreUpdateDropsTie(board, w) ==
    IF w.some /\ w.val = "Tie"
    THEN [raised |-> FALSE, board |-> board, said |-> "tie"]
    ELSE IF w.some /\ w.val /= ""
    THEN [raised |-> FALSE, board |-> [board EXCEPT ![w.val] = @ + 1], said |-> "winner"]
    ELSE [raised |-> FALSE, board |-> board, said |-> "Error: Could not determine winner."]

\* A scoring step that counts a round without a winner as a tie
ScoreUpdateUnknownAsTie(board, w) ==
    IF ~w.some \/ w.val = "Tie"
    THEN [raised |-> FALSE, board |-> [board EXCEPT !["Tie"] = @ + 1], said |-> "tie"]
    ELSE [raised |-> FALSE, board |-> [board EXCEPT ![w.val] = @ + 1], said |-> "winner"]

\* if winner == "Tie": ... elif winner: ... else: ...
\* [raised, board, said]: raised where scoreboard[winner] has no such key.
ScoreUpdate(board, w) ==
    IF w.some /\ w.val = "Tie"
    THEN [raised |-> FALSE, board |-> [board EXCEPT !["Tie"] = @ + 1], said |-> "tie"]
    ELSE IF w.some /\ w.val /= ""
    THEN IF w.val \in DOMAIN board
         THEN [raised |-> FALSE, board |-> [board EXCEPT ![w.val] = @ + 1], said |-> "winner"]
         ELSE [raised |-> TRUE, board |-> board, said |-> "KeyError"]
    ELSE [raised |-> FALSE, board |-> board, said |-> "Error: Could not determine winner."]

\* The scoring step, the score line and the end of the round.  The values of the
\* round are not read again: the next round assigns each before it reads it.
ScoreRound ==
    /\ pc = "score"
    /\ \E u \in {ScoreUpdate(scoreboard, winner)} :
           IF u.raised THEN Crash /\ UNCHANGED backend
           ELSE /\ scoreboard' = u.board
                /\ report' = [round |-> i, said |-> u.said, winner |-> winner,
                              score |-> u.board]
                /\ completed' = completed + 1
                /\ unknowns' = IF winner.some THEN unknowns ELSE unknowns + 1
                /\ prob_res' = <<>> /\ prob_data' = <<>>
                /\ tasks' = <<NoTask, NoTask>> /\ done' = <<>>
                /\ res' = <<>> /\ out' = <<>> /\ judge_input' = <<>> /\ judge_res' = <<>>
                /\ winner' = <<>>
                /\ backend' = NoBackend
                /\ pc' = "loop"
                /\ UNCHANGED <<config, i, final, calls>>

\* The loop is over: the final results are printed.
ExitLoop ==
    /\ pc = "loop"
    /\ ~LoopContinues(i, rounds)
    /\ final' = scoreboard
    /\ pc' = "final"
    /\ UNCHANGED <<config, scoreboard, i, roundVars, backend, report, calls, completed, unknowns>>

Next ==
    \/ Configure
    \/ EnterRound
    \/ GeneratorReturns
    \/ \E k \in 1..2 : SolverCompletes(k)
    \/ GatherReturns
    \/ JudgeReturns
    \/ ScoreRound
    \/ ExitLoop

Spec == Init /\ [][Next]_vars

\* Every call of a backend returns or raises, and main runs on.
FairSpec == Spec /\ WF_vars(Next)

(* ------------------------------------------------------------------ *)
(* extract_winner as a function of the verdict and the two names       *)
(* ------------------------------------------------------------------ *)

Fragments ==
    { "It is a tie in style. ",
      "Alpha has the better proof. ",
      "Beta names more entities. ",
      "The WINNER is clear. ",
      "The winner of the match is: Beta. ",
      "Result is: Tie. " }

Closings ==
    { "",
      "The winner of the match is: Alpha",
      "The winner of the match is: Beta",
      "THE WINNER OF THE MATCH IS: ALPHA",
      "The winner of the match is: Tie",
      "So it is: Tie" }

\* The concatenations of at most n fragments
RECURSIVE Prefixes(_)
Prefixes(n) ==
    IF n = 0 THEN {""}
    ELSE Prefixes(n - 1) \cup {p \o f : p \in Prefixes(n - 1), f \in Fragments}

VerdictTexts == {p \o c : p \in Prefixes(MaxChunks), c \in Closings}

\* Two distinct names in both orders; "Al" is a prefix of "Alpha".
NamePairs == {<<"Alpha", "Beta">>, <<"Beta", "Alpha">>, <<"Al", "Alpha">>, <<"Alpha", "Al">>}

InitEW ==
    /\ pc = "extract"
    /\ \E names \in NamePairs : name_1 = names[1] /\ name_2 = names[2]
    /\ \E v \in VerdictTexts : judge_res = [final_output |-> v]
    /\ r_input = "" /\ rounds = 0 /\ model_1 = "" /\ model_2 = ""
    /\ agents = <<>> /\ scoreboard = <<>> /\ i = 0
    /\ prob_res = <<>> /\ prob_data = <<>>
    /\ tasks = <<NoTask, NoTask>> /\ done = <<>>
    /\ res = <<>> /\ out = <<>> /\ judge_input = <<>>
    /\ winner = <<>> /\ report = <<>> /\ final = <<>>
    /\ calls = [r \in Roles |-> 0]
    /\ backend = NoBackend
    /\ completed = 0 /\ unknowns = 0

\* winner = extract_winner(verdict, name_1, name_2)
ExtractWinner ==
    /\ pc = "extract"
    /\ \E w \in {extract_winner(verdict, name_1, name_2)} : winner' = w
    /\ pc' = "extracted"
    /\ UNCHANGED <<config, scoreboard, i, prob_res, prob_data, tasks, done, res, out,
                   judge_input, judge_res, report, final, calls, backend, completed, unknowns>>

NextEW == ExtractWinner

SpecEW == InitEW /\ [][NextEW]_vars

(* ------------------------------------------------------------------ *)
(* The parsers as functions of the text                                *)
(* ------------------------------------------------------------------ *)

ParsePieces ==
    { "Problem Statement:", "problem STATEMENT:", "Final Answer:", "final answer:",
      "Reasoning:", " 2+2? ", "\n", "x" }

\* The concatenations of at most n pieces
RECURSIVE PieceTexts(_)
PieceTexts(n) ==
    IF n = 0 THEN {""}
    ELSE PieceTexts(n - 1) \cup {p \o f : p \in PieceTexts(n - 1), f \in ParsePieces}

ParseTexts == PieceTexts(MaxPieces)

InitParse ==
    /\ pc = "parse"
    /\ \E t \in ParseTexts :
         /\ prob_res = [final_output |-> t]
         /\ res = <<[final_output |-> t]>>
    /\ r_input = "" /\ rounds = 0
    /\ model_1 = "" /\ model_2 = "" /\ name_1 = "" /\ name_2 = ""
    /\ agents = <<>> /\ scoreboard = <<>> /\ i = 0
    /\ prob_data = <<>>
    /\ tasks = <<NoTask, NoTask>> /\ done = <<>>
    /\ out = <<>> /\ judge_input = <<>> /\ judge_res = <<>>
    /\ winner = <<>> /\ report = <<>> /\ final = <<>>
    /\ calls = [r \in Roles |-> 0]
    /\ backend = NoBackend
    /\ completed = 0 /\ unknowns = 0

\* prob_data = parse_math_problem_output(prob_res.final_output)
ParseProblem ==
    /\ pc = "parse"
    /\ \E r \in {parse_math_call(prob_res.final_output)} :
         IF r.raised THEN pc' = "crashed" /\ UNCHANGED prob_data
         ELSE pc' = "parsed_problem" /\ prob_data' = r.value
    /\ UNCHANGED <<config, scoreboard, i, prob_res, tasks, done, res, out, judge_input,
                   judge_res, winner, report, final, calls, backend, completed, unknowns>>

\* out1 = parse_solver_output(res1.final_output)
ParseSolver ==
    /\ pc = "parse"
    /\ \E o \in {parse_solver_output(res[1].final_output)} : out' = <<o>>
    /\ pc' = "parsed_solver"
    /\ UNCHANGED <<config, scoreboard, i, prob_res, prob_data, tasks, done, res, judge_input,
                   judge_res, winner, report, final, calls, backend, completed, unknowns>>

NextParse == ParseProblem \/ ParseSolver

SpecParse == InitParse /\ [][NextParse]_vars

(* ------------------------------------------------------------------ *)
(* One Agent, called again and again                                   *)
(* ------------------------------------------------------------------ *)

AgentModels ==
    { "gpt-4", "gpt-", "o1-mini", "gemini-pro", "models/gemini-1.5", "x-gemini",
      "GPT-4", "gpt4", "o1", "O1-mini", "Gemini-Pro", "gemin", "claude-3", "tie", "" }

AgentOutcomes == SolverOutcomes \cup {NoContent}

\* agent = Agent(get_clean_name(model), model, SOLVER_INSTRUCTIONS)
InitAgent ==
    /\ pc = "agent"
    /\ \E m \in AgentModels :
         /\ model_1 = m
         /\ name_1 = get_clean_name(m)
         /\ agents = [Fighter_1 |-> Agent(get_clean_name(m), m, SOLVER_INSTRUCTIONS)]
    /\ r_input = "" /\ rounds = 0 /\ model_2 = "" /\ name_2 = ""
    /\ scoreboard = <<>> /\ i = 0
    /\ prob_res = <<>> /\ prob_data = [problem_statement |-> "2+2?"]
    /\ tasks = <<NoTask, NoTask>> /\ done = <<>>
    /\ res = <<>> /\ out = <<>> /\ judge_input = <<>> /\ judge_res = <<>>
    /\ winner = <<>> /\ report = <<>> /\ final = <<>>
    /\ calls = [r \in Roles |-> 0]
    /\ backend = NoBackend
    /\ completed = 0 /\ unknowns = 0

\* await Runner.run(agent, input_text)
AgentRun ==
    /\ pc = "agent"
    /\ calls["Fighter_1"] < MaxCalls
    /\ calls' = Called(calls, "Fighter_1")
    /\ \E outcome \in OutcomesFor(agents.Fighter_1, AgentOutcomes) :
         /\ backend' = [backend EXCEPT !["Fighter_1"] = outcome]
         /\ \E r \in {Runner_run(agents.Fighter_1, prob_data.problem_statement, outcome)} :
               tasks' = [tasks EXCEPT ![1] = r]
    /\ UNCHANGED <<pc, config, scoreboard, i, prob_res, prob_data, done, res, out, judge_input,
                   judge_res, winner, report, final, completed, unknowns>>

NextAgent == AgentRun

SpecAgent == InitAgent /\ [][NextAgent]_vars

(* ------------------------------------------------------------------ *)
(* Properties                                                          *)
(* ------------------------------------------------------------------ *)

RECURSIVE SumOver(_, _)
SumOver(f, S) ==
    IF S = {} THEN 0
    ELSE LET k == CHOOSE x \in S : TRUE IN f[k] + SumOver(f, S \ {k})

\* The sum of the values of the scoreboard dict
ScoreSum == SumOver(scoreboard, DOMAIN scoreboard)

\* C1: after any K completed rounds the values of the scoreboard sum to K minus
\* the number of those rounds without a winner, hence to at most K, and K is the
\* loop's count of rounds whenever main is between two rounds.
C1_ScoreboardSum ==
    /\ scoreboard /= <<>> =>
          /\ ScoreSum = completed - unknowns
          /\ ScoreSum <= completed
          /\ (unknowns = 0 <=> ScoreSum = completed)
    /\ pc \in {"loop", "final"} => completed = i

C1_Witness ==
    pc = "loop" /\ completed = 2 /\ unknowns = 1 /\ ScoreSum = 1

ClosingAlpha == "The winner of the match is: Alpha"

\* C2: with the names Alpha and Beta, every verdict that ends with "The winner
\* of the match is: Alpha" yields Alpha, whatever precedes that sentence.
C2_ClosingSentence ==
    (pc = "extracted" /\ {name_1, name_2} = {"Alpha", "Beta"} /\ endswith(verdict, ClosingAlpha))
       => winner = Some("Alpha")

\* C3: every verdict that contains both "tie" and "winner", in any case and
\* anywhere, yields Tie, also when it contains the winner sentence of a name.
C3_TieFirst ==
    ( /\ pc = "extracted"
      /\ contains(lower(verdict), "tie")
      /\ contains(lower(verdict), "winner") )
    => winner = Some("Tie")

C3_Witness ==
    /\ pc = "extracted"
    /\ contains(lower(verdict), "tie")
    /\ contains(lower(verdict), "winner of the match is: " \o lower(name_1))
    /\ contains(lower(verdict), "winner of the match is: " \o lower(name_2))
    /\ winner = Some("Tie")

\* The verdict matches none of the patterns of winner extraction.
MatchesNoPattern(v, n1, n2) ==
    LET low == lower(v)
    IN  /\ ~(contains(low, "tie") /\ contains(low, "winner"))
        /\ ~contains(low, "winner of the match is: " \o lower(n1))
        /\ ~contains(low, "winner of the match is: " \o lower(n2))
        /\ ~contains(low, "is: tie")

\* C4: in a round whose verdict matches no pattern, no winner is extracted, the
\* scoring step leaves every scoreboard entry as it was, reports the error line,
\* and main is back at the loop, where the next round or the final report follows.
C4_Indeterminate ==
    /\ [][ (pc = "score" /\ MatchesNoPattern(verdict, name_1, name_2)) =>
              /\ winner = None
              /\ scoreboard' = scoreboard
              /\ report'.round = i
              /\ report'.said = "Error: Could not determine winner."
              /\ report'.score = scoreboard
              /\ pc' = "loop" ]_vars
    /\ [](pc = "loop" => ENABLED (EnterRound \/ ExitLoop))

C4_Witness ==
    /\ pc = "loop" /\ completed = 2
    /\ report.said = "Error: Could not determine winner."
    /\ ScoreSum = 1

\* The message of the exception a backend outcome makes Agent.run meet
ExceptionMessage(outcome) ==
    IF outcome.kind = "none" THEN "'NoneType' object has no attribute 'strip'"
    ELSE outcome.text

RaisedInBackend(r) == backend[r].kind \in {"raise", "none"}

\* What the call of the agent in this round handed back to main
Response(r) ==
    CASE r = "Generator" -> prob_res.final_output
      [] r = "Fighter_1" -> tasks[1].final_output
      [] r = "Fighter_2" -> tasks[2].final_output
      [] r = "Judge"     -> judge_res.final_output

\* C5: no exception of a backend leaves Agent.run: the call returns a text that
\* holds the agent's name and the exception's message.
C5_NoPropagation ==
    /\ pc /= "crashed"
    /\ ~tasks[1].raised /\ ~tasks[2].raised
    /\ \A r \in Roles :
         RaisedInBackend(r) =>
            /\ startswith(Response(r), "Error running agent ")
            /\ contains(Response(r), agents[r].name)
            /\ contains(Response(r), ExceptionMessage(backend[r]))

C5_Witness ==
    /\ pc = "score"
    /\ backend["Generator"].kind = "raise"
    /\ backend["Fighter_1"].kind = "raise" /\ IsOpenAIModel(model_1)
    /\ backend["Fighter_2"].kind = "raise" /\ IsGeminiModel(model_2)
    /\ backend["Judge"].kind = "none"

\* C6: for every round count N >= 1 and whatever the agents answer, main never
\* stops on an exception, a round is left only for the loop and with that round
\* completed, and the match reaches the final report, which it reaches after
\* exactly N rounds.
C6_MatchCompletes ==
    /\ [](pc /= "crashed")
    /\ []((pc = "final" /\ rounds >= 1) => (completed = rounds /\ i = rounds))
    /\ [][(pc \in {"generating", "solving", "judging", "score"}
             /\ pc' \notin {"generating", "solving", "judging", "score"})
           => (pc' = "loop" /\ i' = i /\ completed' = i)]_vars
    /\ (pc = "loop" /\ rounds >= 1) ~> (pc = "final")

C6_Witness ==
    /\ pc = "final" /\ rounds = MaxRounds /\ completed = MaxRounds
    /\ unknowns = MaxRounds
    /\ ~HasBackend(model_1)

\* What the call of solver k returned in this round, from what its backend did
SolverResponse(k) ==
    Agent_run(agents[Fighter(k)], prob_data.problem_statement, backend[Fighter(k)]).value

\* C7: whichever solver call ends first, the judge input's fields of name_1 are
\* the parsed answer and reasoning of Fighter_1's response and those of name_2
\* are Fighter_2's.
C7_SlotBinding ==
    pc \in {"judging", "score"} =>
       \A o1 \in {parse_solver_output(SolverResponse(1))},
          o2 \in {parse_solver_output(SolverResponse(2))} :
          /\ judge_input.label_1 = name_1
          /\ judge_input.answer_1 = o1.final_answer
          /\ judge_input.reasoning_1 = o1.reasoning
          /\ judge_input.label_2 = name_2
          /\ judge_input.answer_2 = o2.final_answer
          /\ judge_input.reasoning_2 = o2.reasoning

C7_Witness ==
    /\ pc = "judging"
    /\ done = <<2, 1>>
    /\ judge_input.answer_1 /= judge_input.answer_2
    /\ judge_input.reasoning_1 /= judge_input.reasoning_2

BothSolversDone == Len(done) = 2 /\ {done[1], done[2]} = {1, 2}

\* C8: in every round the judge is called, and a solver output is parsed, only
\* after both solver calls of the round have ended.
C8_WaitsForBoth ==
    ( \/ pc \in {"judging", "score"}
      \/ out /= <<>>
      \/ judge_input /= <<>>
      \/ calls["Judge"] > completed )
    => BothSolversDone

C8_Witness ==
    pc = "judging" /\ BothSolversDone /\ out /= <<>> /\ calls["Judge"] = completed + 1

Other(k) == 3 - k

\* C9 as stated: when a solver's backend raises, that solver's final_answer is
\* exactly the diagnostic text of Agent.run and its reasoning is the sentinel.
C9_Original ==
    \A k \in 1..2 :
       (pc \in {"judging", "score"} /\ RaisedInBackend(Fighter(k))) =>
          /\ out[k].final_answer = tasks[k].final_output
          /\ out[k].reasoning = "No reasoning provided."

C9_Parsed ==
    \A k \in 1..2 :
       (pc \in {"judging", "score"} /\ RaisedInBackend(Fighter(k))) =>
          /\ startswith(tasks[k].final_output, "Error running agent ")
          /\ ~contains(lower(tasks[k].final_output), "final answer:")
                => out[k].final_answer = tasks[k].final_output
          /\ ~contains(lower(tasks[k].final_output), "reasoning:")
                => out[k].reasoning = "No reasoning provided."
          /\ out[Other(k)] = parse_solver_output(SolverResponse(Other(k)))

\* C9 amended: when a solver's backend raises, that solver's final_answer is
\* exactly the diagnostic text of Agent.run provided the diagnostic holds no
\* "Final Answer:" marker (in any case), its reasoning is the sentinel provided the
\* diagnostic holds no "Reasoning:" marker, the other solver's output is the
\* parse of its own response, and the round goes on: solving is left only for
\* the call of the judge, judging only for the scoring step of the same round,
\* and the scoring step is reached.
C9_SolverException ==
    /\ []C9_Parsed
    /\ [](pc /= "crashed")
    /\ [][(pc = "solving" /\ pc' /= "solving")
           => (pc' = "judging" /\ i' = i /\ calls'["Judge"] = i)]_vars
    /\ [][(pc = "judging" /\ pc' /= "judging")
           => (pc' = "score" /\ i' = i /\ calls'["Judge"] = i)]_vars
    /\ (pc = "solving" /\ (RaisedInBackend("Fighter_1") \/ RaisedInBackend("Fighter_2")))
          ~> (pc = "score")

C9_Witness ==
    /\ pc = "score"
    /\ backend["Fighter_1"].text = "timeout"
    /\ backend["Fighter_2"].kind = "text"
    /\ out[1].final_answer = "Error running agent " \o name_1 \o ": timeout"
    /\ out[1].reasoning = "No reasoning provided."
    /\ out[2].final_answer = "4"

\* The typed round count is no number: it holds no digit, or a character that
\* is neither a digit, a sign nor white space.
NonNumeric(s) ==
    /\ strip(s) /= ""
    /\ \/ \A k \in 1..Len(s) : ~IsDigit(CharAt(s, k))
       \/ \E k \in 1..Len(s) :
             ~(IsDigit(CharAt(s, k)) \/ IsSpace(CharAt(s, k)) \/ CharAt(s, k) \in {"+", "-", "_"})

\* C10: with a round count that is no number the match does not start: no agent
\* is made or called, no scoreboard is made, no round runs, nothing is reported.
C10_ConfigurationError ==
    (pc /= "config" /\ NonNumeric(r_input)) =>
       /\ pc = "returned"
       /\ agents = <<>> /\ scoreboard = <<>>
       /\ \A r \in Roles : calls[r] = 0
       /\ i = 0 /\ completed = 0
       /\ report = <<>> /\ final = <<>>

C10_Witness ==
    pc = "returned" /\ r_input = "abc" /\ agents = <<>> /\ scoreboard = <<>>

\* C11: in a round whose verdict ends with "is: Tie" the scoring step adds exactly
\* one to the scoreboard's Tie entry and leaves the entry of each contestant as it
\* was, whatever the two display names are.
C11_TieVerdict ==
    [][ (pc = "score" /\ endswith(verdict, "is: Tie")) =>
           /\ pc' = "loop"
           /\ scoreboard'["Tie"] = scoreboard["Tie"] + 1
           /\ scoreboard'[name_1] = scoreboard[name_1]
           /\ scoreboard'[name_2] = scoreboard[name_2] ]_vars

\* The text has no occurrence of the marker, in any case of its letters.
Lacks(text, marker) == ~contains(lower(text), lower(marker))

\* C12: parse_math_problem_output raises nothing, and for a text without the
\* "Problem Statement:" marker or without the "Final Answer:" marker it returns
\* the whole text, unchanged, as the problem statement and "Unknown" as the answer.
C12_ProblemFallback ==
    /\ pc /= "crashed"
    /\ ( /\ pc = "parsed_problem"
         /\ Lacks(prob_res.final_output, "Problem Statement:")
              \/ Lacks(prob_res.final_output, "Final Answer:") )
       => prob_data = [problem_statement    |-> prob_res.final_output,
                       correct_final_answer |-> "Unknown"]

C12_Witness ==
    /\ pc = "parsed_problem"
    /\ prob_res.final_output = "Problem Statement: 2+2? \n"
    /\ prob_data.problem_statement = "Problem Statement: 2+2? \n"
    /\ prob_data.correct_final_answer = "Unknown"

\* C13: parse_solver_output returns for every text, and for a text without the
\* "Final Answer:" marker the final_answer is the whole text, unchanged, with or
\* without a "Reasoning:" marker in it.
C13_AnswerFallback ==
    /\ pc = "parse" => ENABLED ParseSolver
    /\ (pc = "parsed_solver" /\ Lacks(res[1].final_output, "Final Answer:"))
       => out[1].final_answer = res[1].final_output

C13_Witness ==
    /\ pc = "parsed_solver"
    /\ res[1].final_output = "Reasoning: 2+2? \n"
    /\ out[1].reasoning = "2+2?"
    /\ out[1].final_answer = "Reasoning: 2+2? \n"

\* The model identifier matches no backend of Agent.run.
Unsupported(model) ==
    /\ ~startswith(model, "gpt-") /\ ~startswith(model, "o1-")
    /\ ~contains(model, "gemini")

\* C14: an Agent whose model matches no backend exists after construction, and
\* every call of its run returns, without an exception and without a request to
\* a backend, the text that names the model as not supported.
C14_UnsupportedModel ==
    (pc = "agent" /\ Unsupported(model_1)) =>
       /\ agents.Fighter_1.model = model_1
       /\ calls["Fighter_1"] < MaxCalls => ENABLED AgentRun
       /\ calls["Fighter_1"] > 0 =>
            /\ ~tasks[1].raised
            /\ tasks[1].final_output = "Error: Model '" \o model_1 \o "' is not supported."
            /\ backend["Fighter_1"] = NoCall

C14_Witness ==
    /\ pc = "agent" /\ model_1 = "GPT-4" /\ calls["Fighter_1"] = 2
    /\ tasks[1].final_output = "Error: Model 'GPT-4' is not supported."

\* The steps main takes from one place to the next
RoundSequence ==
    { <<"config", "loop">>, <<"config", "returned">>,
      <<"loop", "generating">>, <<"generating", "solving">>, <<"solving", "judging">>,
      <<"judging", "score">>, <<"score", "loop">>, <<"loop", "final">> }

HasReturned(r) == backend[r].kind /= "pending"

\* How often the agent has been called when main is at pc in round i
CallsAt(r) ==
    CASE r = "Generator" -> IF pc \in {"generating", "solving", "judging", "score"} THEN completed + 1
                            ELSE completed
      [] r = "Judge"     -> IF pc \in {"judging", "score"} THEN completed + 1 ELSE completed
      [] OTHER           -> IF pc \in {"solving", "judging", "score"} THEN completed + 1
                            ELSE completed

\* C15: a round is generate, solve, judge, score, in this order and without a
\* second try: at every place of main each of the four agents has been called
\* once per completed round plus once if the round under way has reached its call,
\* the generator has returned before a solver is called, both solvers and then the
\* judge have returned before the scoring step, whatever the responses are.
C15_FixedSequence ==
    /\ [][pc' /= pc => <<pc, pc'>> \in RoundSequence]_vars
    /\ [](\A r \in Roles : calls[r] = CallsAt(r))
    /\ [](pc \in {"generating", "solving", "judging", "score"} => i = completed + 1)
    /\ [](pc \in {"solving", "judging", "score"} => HasReturned("Generator") /\ prob_data /= <<>>)
    /\ [](pc = "generating" => \A r \in Roles : ~HasReturned(r))
    /\ [](pc \in {"judging", "score"} => HasReturned("Fighter_1") /\ HasReturned("Fighter_2"))
    /\ [](pc \in {"generating", "solving", "judging"} => ~HasReturned("Judge"))
    /\ [](pc = "score" => HasReturned("Judge") /\ winner /= <<>>)
    /\ [][(scoreboard /= <<>> /\ scoreboard' /= scoreboard) => HasReturned("Judge")]_vars

C15_Witness ==
    /\ pc = "score" /\ i = 2
    /\ backend["Generator"].kind = "raise"
    /\ backend["Fighter_1"].kind = "raise"
    /\ backend["Fighter_2"].text = " 5 "
    /\ backend["Judge"].kind = "none"
    /\ \A r \in Roles : calls[r] = 2

\* The keys whose entry differs between two scoreboards of the same keys
ChangedKeys(before, after) == {k \in DOMAIN before : after[k] /= before[k]}

\* C16: once the scoreboard exists, no step but the scoring step changes it: not
\* the generation of the problem, not a solver call that ends while the other is
\* in flight, not the parsing, not the judge call; and the scoring step keeps the
\* keys and adds exactly one to at most one entry, so that no entry decreases.
C16_ScoreboardFrame ==
    [][ scoreboard /= <<>> =>
          /\ pc /= "score" => scoreboard' = scoreboard
          /\ DOMAIN scoreboard' = DOMAIN scoreboard
          /\ \A k \in DOMAIN scoreboard : scoreboard'[k] >= scoreboard[k]
          /\ Cardinality(ChangedKeys(scoreboard, scoreboard')) <= 1
          /\ \A k \in ChangedKeys(scoreboard, scoreboard') : scoreboard'[k] = scoreboard[k] + 1 ]_vars

C16_Witness ==
    /\ pc = "solving" /\ Len(done) = 1 /\ i = 2
    /\ scoreboard[name_1] = 1 /\ name_1 /= name_2 /\ name_1 /= "Tie"

\* C17: for every verdict and every two distinct names the outcome of winner
\* extraction is the same with the names in the other order, also when one name
\* is a prefix of the other or the verdict holds the winner sentence of both.
C17_Commutative ==
    pc = "extracted" => winner = extract_winner(verdict, name_2, name_1)

\* C18: in every state of a match the keys of the scoreboard are name_1, name_2
\* and "Tie" and no other, every value is a natural number, the winner extracted
\* is name_1, name_2, "Tie" or None, and the scoring step finds the key it adds
\* to and makes no new key, also when the names coincide or a name is "Tie".
C18_ScoreboardKeys ==
    /\ pc /= "crashed"
    /\ scoreboard /= <<>> =>
          /\ DOMAIN scoreboard = {name_1, name_2, "Tie"}
          /\ \A k \in DOMAIN scoreboard : scoreboard[k] \in Nat
    /\ winner /= <<>> => winner \in {Some(name_1), Some(name_2), Some("Tie"), None}
    /\ pc = "score" =>
          \A u \in {ScoreUpdate(scoreboard, winner)} :
             ~u.raised /\ DOMAIN u.board = DOMAIN scoreboard

C18_Witness ==
    /\ pc = "loop" /\ completed = 2
    /\ name_1 = name_2 /\ name_1 /= "Tie"
    /\ DOMAIN scoreboard = {name_1, "Tie"}
    /\ scoreboard[name_1] = 1 /\ scoreboard["Tie"] = 1

\* The typed round count is a number that is zero or negative.
NotPositive(s) ==
    strip(s) /= "" /\ \A n \in {int(s)} : n.ok /\ n.value <= 0

AllZero(board) == board /= <<>> /\ \A k \in DOMAIN board : board[k] = 0

\* C19: with a round count that is a number and zero or negative the match
\* starts (the agents and the scoreboard are made), no round runs, no agent is
\* called, and the next step of main is the final report, with every scoreboard
\* entry 0.
C19_NoRounds ==
    /\ []((pc /= "config" /\ NotPositive(r_input)) =>
            /\ pc \in {"loop", "final"}
            /\ rounds <= 0
            /\ DOMAIN agents = Roles
            /\ \A r \in Roles : calls[r] = 0
            /\ i = 0 /\ completed = 0 /\ report = <<>>
            /\ AllZero(scoreboard)
            /\ pc = "loop" => ENABLED ExitLoop /\ ~ENABLED EnterRound
            /\ pc = "final" => AllZero(final))
    /\ [][(pc = "loop" /\ NotPositive(r_input)) => pc' = "final"]_vars

C19_Witness ==
    pc = "final" /\ r_input = "-1" /\ rounds = -1 /\ AllZero(final) /\ calls["Generator"] = 0
====
